---- MODULE Spec2Model ----
(***************************************************************************)
(* Batch synchronization pipeline of the Perpetua goal uploaders.          *)
(*                                                                         *)
(* Four API batch drivers are modelled, each a Node.js script:             *)
(*   "simplified"  perpetua-simplified-uploader.js  (src/unnamed/part_000) *)
(*   "api"         perpetua-api-uploader.js         (src/unnamed/part_001) *)
(*   "harvesting"  perpetua-harvesting-uploader.js                         *)
(*   "seeded"      seeded harvesting uploader       (src/unnamed/part_002) *)
(*                                                                         *)
(* A run is one invocation of main().  The code between two awaits runs    *)
(* without interruption, so there is one action per await point: the       *)
(* start of main, the head of the for loop up to the first fetch of the    *)
(* task, the arrival of the product search response, the arrival of the    *)
(* create response, and the end of the inter-task sleep.  The remote       *)
(* platform is the environment: it picks every response.                   *)
(***************************************************************************)
EXTENDS Integers, Sequences, FiniteSets, TLC

VARIABLES
    driver,            \* which uploader script is run
    allKeywords,       \* the task source (keywords JSON / CSV rows), read-only
    runs,              \* number of invocations of main() started so far
    args,              \* parseArgs(): [dryRun, limit, startRow]
    pc,                \* position of main(): idle, loop, lookup, create, sleep, done
    i,                 \* loop index of main()
    endIndex,          \* endIndex / endRow of main()
    remainingAsins,    \* remainingAsins of main() (keyed drivers)
    completedAsins,    \* completedAsins of main(): the ledger's completed set at run start
    productCache,      \* in-memory ASIN -> product_id map
    productCacheFile,  \* product_cache.json: <<>> (absent) or <<map>>
    progressFile,      \* the progress ledger file: <<>> (absent) or <<document>>
    successCount, errorCount, skippedCount,
    halted,            \* the loop was left by a break
    response,          \* the last HTTP response received
    payload,           \* the body of the last create call of the run
    interrupted,       \* the process of the run was killed
    peerCache,         \* in-memory map of a second uploader process: <<>> (not running) or <<map>>
    trace              \* what this run has done so far, in order

vars == <<driver, allKeywords, runs, args, pc, i, endIndex, remainingAsins,
          completedAsins, productCache, productCacheFile, progressFile,
          successCount, errorCount, skippedCount, halted, response, payload,
          interrupted, peerCache, trace>>

----------------------------------------------------------------------------
(* Bounds *)

MaxRuns == 2

\* The failed list of the ledger grows without limit; the remote platform
\* stops failing once the list holds this many entries.
MaxFailed == 2

\* The number of saveProgress calls applied to a ledger on its own.
MaxRecords == 3

----------------------------------------------------------------------------
(* Configuration and inputs *)

Drivers == {"simplified", "api", "harvesting", "seeded"}

KeyedDrivers == {"simplified", "harvesting", "seeded"}

delayBetweenRequests == 500

NULL == -1

\* JavaScript truthiness of a product id (null and 0 are falsy).
Truthy(v) == v # NULL /\ v # 0

\* Array.prototype.map
Map(arr, Op(_)) == [k \in 1..Len(arr) |-> Op(arr[k])]

\* String.prototype.trim (spaces)
RECURSIVE Trim(_)
Trim(s) ==
    IF Len(s) > 0 /\ SubSeq(s, 1, 1) = " "
    THEN Trim(SubSeq(s, 2, Len(s)))
    ELSE IF Len(s) > 0 /\ SubSeq(s, Len(s), Len(s)) = " "
    THEN Trim(SubSeq(s, 1, Len(s) - 1))
    ELSE s

\* String.prototype.split(',')
RECURSIVE Split(_)
Split(s) ==
    LET commas == {k \in 1..Len(s) : SubSeq(s, k, k) = ","} IN
    IF commas = {}
    THEN <<s>>
    ELSE LET k == CHOOSE c \in commas : \A d \in commas : c <= d
         IN  <<SubSeq(s, 1, k - 1)>> \o Split(SubSeq(s, k + 1, Len(s)))

NonEmpty(s) == s # ""

\* column.split(',').map(k => k.trim()).filter(k => k)
SplitList(column) == SelectSeq(Map(Split(column), Trim), NonEmpty)

UpperCase == "ABCDEFGHIJKLMNOPQRSTUVWXYZ"

LowerCase == "abcdefghijklmnopqrstuvwxyz"

\* String.prototype.toLowerCase
RECURSIVE ToLowerCase(_)
ToLowerCase(s) ==
    IF Len(s) = 0
    THEN s
    ELSE LET c  == SubSeq(s, 1, 1)
             up == {k \in 1..Len(UpperCase) : SubSeq(UpperCase, k, k) = c}
         IN  (IF up = {} THEN c
              ELSE LET k == CHOOSE j \in up : TRUE IN SubSeq(LowerCase, k, k))
             \o ToLowerCase(SubSeq(s, 2, Len(s)))

\* A comma-separated column of the CSV, as the generator of the CSV writes a
\* list of terms
RECURSIVE Column(_)
Column(list) ==
    IF list = <<>> THEN ""
    ELSE IF Len(list) = 1 THEN list[1]
    ELSE list[1] \o ", " \o Column(Tail(list))

\* A positive term of a task
Term(text, match) == [text |-> text, match |-> match]

\* A task of the unbranded segment in keyword mode.  The keyword files of the
\* keyed drivers hold only such tasks; in the CSV of the API uploader it is a
\* row named as the simplified uploader names its goals.
Row(asin, sku, kw) ==
    [asin |-> asin, sku |-> sku, kw |-> kw, segment |-> "unbranded",
     campaignType |-> "SingleCampaign_KW", matchType |-> "EXACT",
     goalName |-> sku \o " -JN[SP_NON-BRANDED]",
     positive |-> IF kw = 0 THEN <<>> ELSE <<Term("widget", "EXACT")>>,
     patTargets |-> <<>>, negativeExact |-> <<>>, negativePhrase |-> <<>>,
     negativeAsins |-> <<>>]

\* A task of a keyword file with the given positive terms
KeywordTask(asin, sku, positive) ==
    [Row(asin, sku, Len(positive)) EXCEPT !.positive = positive]

\* The positive term lists of the keyword files
TermLists ==
    { <<>>,
      <<Term("widget", "EXACT")>>,
      <<Term("widget", "BROAD")>>,
      <<Term("widget", "EXACT"), Term("gadget", "EXACT"),
        Term("blue widget", "PHRASE"), Term("widget", "BROAD")>> }

\* The term columns of a CSV row: Keywords, PAT Targets, Negative Keywords
\* (Exact), Negative Keywords (Phrase), Negative ASINs
NoTerms ==
    [positive |-> <<>>, patTargets |-> <<>>, negativeExact |-> <<>>,
     negativePhrase |-> <<>>, negativeAsins |-> <<>>]

TermColumns ==
    { NoTerms,
      [NoTerms EXCEPT !.positive = <<"widget">>],
      [NoTerms EXCEPT !.positive = <<"widget", "blue widget">>,
                      !.negativeExact = <<"cheap", "free">>,
                      !.negativePhrase = <<"second hand">>,
                      !.negativeAsins = <<"B0CCC3">>],
      [NoTerms EXCEPT !.patTargets = <<"B0AAA1", "B0BBB2">>,
                      !.negativeAsins = <<"B0CCC3", "B0DDD4">>],
      [NoTerms EXCEPT !.positive = <<"b0aaa1">>] }

\* The SKUs of the catalog: a short one, one that holds the word BRANDED, and
\* one of 45 characters.
Skus == {"NT15511A", "UNBRANDED-KIT-01",
         "NT15511A-EXTRA-LONG-VARIANT-PACK-OF-12-BLUE-X"}

\* The campaigns of the 10-campaign structure: segment, Campaign Type and
\* Match Type columns, and the tag of the goal name.
Campaigns ==
    { [segment |-> "branded", campaignType |-> "SingleCampaign_KW",
       matchType |-> "EXACT", tag |-> "BRANDED_EXACT"],
      [segment |-> "branded", campaignType |-> "SingleCampaign_PAT",
       matchType |-> "PAT", tag |-> "BRANDED_PAT"],
      [segment |-> "unbranded", campaignType |-> "SingleCampaign_KW",
       matchType |-> "EXACT", tag |-> "MANUAL_EXACT"],
      [segment |-> "unbranded", campaignType |-> "SingleCampaign_KW",
       matchType |-> "BROAD", tag |-> "MANUAL_BROAD"],
      [segment |-> "competitor", campaignType |-> "SingleCampaign_KW",
       matchType |-> "EXACT", tag |-> "COMPETITOR_KW"],
      [segment |-> "competitor", campaignType |-> "SingleCampaign_PAT",
       matchType |-> "PAT", tag |-> "COMPETITOR_PAT"],
      [segment |-> "auto", campaignType |-> "SingleCampaign_KW",
       matchType |-> "BROAD", tag |-> "AUTO"] }

\* A CSV row of a campaign, named  SKU - ASIN [SP_SEGMENT_MATCHTYPE] JN
CsvRow(asin, sku, kw, c) ==
    [asin |-> asin, sku |-> sku, kw |-> kw, segment |-> c.segment,
     campaignType |-> c.campaignType, matchType |-> c.matchType,
     goalName |-> sku \o " - " \o asin \o " [SP_" \o c.tag \o "] JN",
     positive |-> IF kw = 0 THEN <<>> ELSE <<Term("widget", c.matchType)>>,
     patTargets |-> <<>>, negativeExact |-> <<>>, negativePhrase |-> <<>>,
     negativeAsins |-> <<>>]

\* A CSV row of a campaign with the given term columns; its positive terms
\* all have the match type of the row.
CsvTask(asin, sku, c, t) ==
    LET OfRow(text) == Term(text, c.matchType) IN
    [CsvRow(asin, sku, Len(t.positive), c) EXCEPT
        !.positive = Map(t.positive, OfRow),
        !.patTargets = t.patTargets,
        !.negativeExact = t.negativeExact,
        !.negativePhrase = t.negativePhrase,
        !.negativeAsins = t.negativeAsins]

\* The one-task sources the payloads are built from: any campaign of any SKU
\* in the CSV of the API uploader, an unbranded keyword task of any SKU in the
\* keyword files of the keyed drivers.
GoalSources ==
    IF driver = "api"
    THEN { <<CsvTask("X", sku, c, t)>> :
               sku \in Skus, c \in Campaigns, t \in TermColumns }
         \cup { <<Row("X", sku, 1)>> : sku \in Skus }
    ELSE { <<KeywordTask("X", sku, positive)>> :
               sku \in Skus, positive \in TermLists }

\* The keyword files of the keyed uploaders: the keys of a file are distinct.
KeywordFiles == { << Row("X", "NT1", 1), Row("Y", "NT2", 1), Row("Z", "NT3", 0) >> }

\* The task source of the runs.  kw is the number of positive terms of the
\* task (exact + phrase + broad, or the CSV Keywords column).
TaskSources ==
    IF driver = "api"
    THEN \* the CSV holds several campaigns of one ASIN
         { << Row("X", "NT1", 1), Row("Y", "NT2", 1),
              CsvRow("X", "NT1", 1,
                     [segment |-> "competitor", campaignType |-> "SingleCampaign_KW",
                      matchType |-> "EXACT", tag |-> "COMPETITOR_KW"]) >> }
    ELSE KeywordFiles

\* Object.keys(allKeywords): the identifiers in task-source order.
asins == [k \in 1..Len(allKeywords) |-> allKeywords[k].asin]

\* 0-based position of an identifier in the task source.
IndexOf(a) == (CHOOSE k \in 1..Len(allKeywords) : allKeywords[k].asin = a) - 1

\* String.prototype.includes
Includes(s, needle) ==
    \E k \in 1..(Len(s) - Len(needle) + 1) :
        SubSeq(s, k, k + Len(needle) - 1) = needle

\* Array.prototype.includes
ArrayIncludes(arr, x) == \E k \in 1..Len(arr) : arr[k] = x

Min(a, b) == IF a < b THEN a ELSE b

----------------------------------------------------------------------------
(* The remote platform *)

\* The remote catalog: product id of an identifier.
RemoteProductId(a) ==
    CASE a = "X" -> 101 [] a = "Y" -> 102 [] a = "Z" -> 103 [] OTHER -> 900

NoResponse == [status |-> 0, body |-> "", edges |-> <<>>]

\* Responses of the create endpoint.
CreateResponses ==
    { [status |-> 200, body |-> "", edges |-> <<>>],
      [status |-> 401, body |-> "Invalid token.", edges |-> <<>>],
      [status |-> 400, body |-> "You cannot create any more goals", edges |-> <<>>],
      [status |-> 500, body |-> "Server error", edges |-> <<>>],
      [status |-> 500, body |-> "Server error, ref 14013", edges |-> <<>>] }

Node(a) == [asin |-> a, productId |-> RemoteProductId(a)]

\* A second catalog entry of the same identifier, with another product id.
Variant(a) == [asin |-> a, productId |-> RemoteProductId(a) + 10]

\* A catalog entry whose product id is 0.
Zero(a) == [asin |-> a, productId |-> 0]

\* The identifiers that have a catalog entry with product id 0
ZeroIds == {"X"}

\* Responses of the product search endpoint to a search for identifier a.
LookupResponses(a) ==
    { [status |-> 200, body |-> "", edges |-> e] :
          e \in { <<>>, <<Node(a)>>, <<Node("W")>>,
                  <<Node("W"), Node(a), Variant(a)>> }
                 \cup (IF a \in ZeroIds THEN {<<Zero(a)>>} ELSE {}) }
    \cup
    { [status |-> 401, body |-> "Invalid token.", edges |-> <<>>],
      [status |-> 500, body |-> "Server error", edges |-> <<>>] }

\* response.ok
Ok(r) == r.status >= 200 /\ r.status <= 299

\* The message of the Error thrown by apiRequest on a non-ok response.
ApiError(r) == "API error " \o ToString(r.status) \o ": " \o r.body

\* The message of the Error thrown by graphqlRequest on a non-ok response.
GraphqlError(r) == "GraphQL error " \o ToString(r.status) \o ": " \o r.body

----------------------------------------------------------------------------
(* Product cache *)

EmptyCache == [a \in {} |-> NULL]

\* CacheGet of a cache that never holds anything.
CacheGet_Miss(cache, a) == NULL

\* productCache[asin] (undefined is modelled by NULL)
CacheGet(cache, a) == IF a \in DOMAIN cache THEN cache[a] ELSE NULL

\* productCache[asin] = productId
CachePut(cache, a, id) == [b \in (DOMAIN cache) \cup {a} |-> IF b = a THEN id ELSE cache[b]]

\* loadProductCache(): the in-memory cache of a fresh process
loadProductCache == IF productCacheFile # <<>> THEN productCacheFile[1] ELSE EmptyCache

\* saveProductCache that leaves the file as it is.
saveProductCache_Stale(cache) == productCacheFile

\* saveProductCache(): the file after writing the given in-memory cache
saveProductCache(cache) == <<cache>>

----------------------------------------------------------------------------
(* Progress ledger *)

EmptyProgress == [completed |-> <<>>, failed |-> <<>>]

\* The content of a ledger file whose write was cut short: writeFileSync
\* truncates the file and then writes the document, so the file is empty or
\* holds a prefix of the document, and JSON.parse throws on it.
Torn == [torn |-> TRUE]

\* JSON.parse accepts the ledger file (or there is no file).
Parseable == progressFile = <<>> \/ progressFile[1] # Torn

\* loadProgress() of the keyed drivers
loadProgress == IF progressFile # <<>> THEN progressFile[1] ELSE EmptyProgress

\* saveProgress that pushes a success without the test for membership.
saveProgress_Push(asin, status, error) ==
    LET progress == loadProgress IN
    IF status = "success"
    THEN <<[progress EXCEPT !.completed = Append(@, asin)]>>
    ELSE IF status = "error"
    THEN <<[progress EXCEPT !.failed = Append(@, [asin |-> asin, error |-> error])]>>
    ELSE <<progress>>

\* saveProgress(asin, status, error) of the keyed drivers: the file it writes.
\* The timestamp of a failed entry is not modelled.
saveProgress(asin, status, error) ==
    LET progress == loadProgress IN
    IF status = "success"
    THEN IF ~ArrayIncludes(progress.completed, asin)
         THEN <<[progress EXCEPT !.completed = Append(@, asin)]>>
         ELSE <<progress>>
    ELSE IF status = "error"
    THEN <<[progress EXCEPT !.failed = Append(@, [asin |-> asin, error |-> error])]>>
    ELSE <<progress>>

\* saveProgress(rowIndex, goalName, status, error) of the API uploader: the
\* file it writes.  The timestamp is not modelled.
saveProgressRow(rowIndex, goalName, status, error) ==
    << [lastRowIndex |-> rowIndex, lastGoalName |-> goalName,
        status |-> status, error |-> error] >>

\* The CSV column 'Goal Name' of a row
GoalName(task) == task.goalName

----------------------------------------------------------------------------
(* The create payload *)

NoPayload ==
    [title |-> "", product_id |-> NULL, harvesting_mode |-> "none",
     search_space_keywords |-> <<>>, negative_keyword_overrides |-> <<>>]

\* An entry of search_space_keywords or negative_keyword_overrides
Entry(text, matchType) == [keyword_text |-> text, match_type |-> matchType]

\* KeywordsOf that gives every term of the task for every match type.
KeywordsOf_All(task, match) ==
    LET Text(t) == t.text IN Map(task.positive, Text)

\* keywords.exact, keywords.phrase, keywords.broad of a keyword file task
KeywordsOf(task, match) ==
    LET Has(t) == t.match = match
        Text(t) == t.text
    IN  Map(SelectSeq(task.positive, Has), Text)

\* The entries of a list of terms, all of one match type
Entries(list, matchType) ==
    LET E(text) == Entry(text, matchType) IN Map(list, E)

\* The column 'Keywords' of a CSV row
KeywordsColumn(task) ==
    LET Text(t) == t.text IN Column(Map(task.positive, Text))

\* matchType || 'EXACT'
MatchTypeOrExact(task) == IF task.matchType = "" THEN "EXACT" ELSE task.matchType

\* String.prototype.substring(0, n)
Substring(s, n) == IF Len(s) > n THEN SubSeq(s, 1, n) ELSE s

\* The title of the goal.  The keyed drivers derive it from the SKU and cut
\* it; the API uploader sends the CSV column 'Goal Name' as it is.
Title(task) ==
    IF driver = "api"
    THEN GoalName(task)
    ELSE Substring(task.sku \o " -JN[SP_NON-BRANDED]", 60)

\* isPATCampaign of the API uploader
IsPATCampaign(task) ==
    task.campaignType = "SingleCampaign_PAT" \/ task.matchType = "PAT"

\* keyword_harvesting.harvesting_mode of the payload ("none": no
\* keyword_harvesting block)
HarvestingMode(task) ==
    IF driver = "api"
    THEN IF IsPATCampaign(task)
         THEN "none"
         ELSE IF Includes(GoalName(task), "BRANDED")
              THEN "MANUALLY_APPROVE"
              ELSE "AUTOMATICALLY_ADD"
    ELSE "AUTOMATICALLY_ADD"

\* search_space_keywords of the payload
SearchSpaceKeywords(task) ==
    IF driver = "simplified"
    THEN Entries(KeywordsOf(task, "EXACT"), "EXACT")
         \o Entries(KeywordsOf(task, "PHRASE"), "PHRASE")
         \o Entries(KeywordsOf(task, "BROAD"), "BROAD")
    ELSE IF driver = "seeded"
    THEN Entries(KeywordsOf(task, "BROAD"), "BROAD")
    ELSE IF driver = "harvesting"
    THEN <<>>
    ELSE IF IsPATCampaign(task) /\ Column(task.patTargets) # ""
    THEN Entries(Map(SplitList(Column(task.patTargets)), ToLowerCase),
                 "TARGETING_EXPRESSION")
    ELSE Entries(SplitList(KeywordsColumn(task)), MatchTypeOrExact(task))

\* NegativeKeywordOverrides without the negative product targets.
NegativeKeywordOverrides_KeywordsOnly(task) ==
    IF driver = "api"
    THEN Entries(SplitList(Column(task.negativeExact)), "EXACT")
         \o Entries(SplitList(Column(task.negativePhrase)), "PHRASE")
    ELSE <<>>

\* negative_keyword_overrides of the payload
NegativeKeywordOverrides(task) ==
    IF driver = "api"
    THEN Entries(SplitList(Column(task.negativeExact)), "EXACT")
         \o Entries(SplitList(Column(task.negativePhrase)), "PHRASE")
         \o Entries(Map(SplitList(Column(task.negativeAsins)), ToLowerCase),
                    "TARGETING_EXPRESSION")
    ELSE <<>>

\* The payload createGoal() builds for a task whose product is productId
Payload(task, productId) ==
    [title |-> Title(task), product_id |-> productId,
     harvesting_mode |-> HarvestingMode(task),
     search_space_keywords |-> SearchSpaceKeywords(task),
     negative_keyword_overrides |-> NegativeKeywordOverrides(task)]

----------------------------------------------------------------------------
(* Events of the run, recorded in trace *)

Event(op, task, status, arg) == [op |-> op, task |-> task, status |-> status, arg |-> arg]

\* The task of loop index i: its record, and its 0-based position in the source.
TaskIndex ==
    IF driver = "api" THEN i ELSE IndexOf(remainingAsins[i + 1])

Task == allKeywords[TaskIndex + 1]

----------------------------------------------------------------------------
(* The batch driver: main() *)

runConfig == <<driver, allKeywords, runs, args, endIndex, remainingAsins,
               completedAsins, interrupted, peerCache>>

\* The arguments an invocation may be given (parseArgs).  answer is the
\* operator's reply to the resume prompt of the API uploader.  The harvesting
\* uploaders take no arguments.
ArgChoices ==
    LET none == [dryRun |-> FALSE, limit |-> 0, startRow |-> 0, answer |-> "n"] IN
    IF driver = "simplified"
    THEN {none, [none EXCEPT !.dryRun = TRUE], [none EXCEPT !.limit = 2],
          [none EXCEPT !.dryRun = TRUE, !.limit = 2]}
    ELSE IF driver = "api"
    THEN {none, [none EXCEPT !.dryRun = TRUE], [none EXCEPT !.limit = 2],
          [none EXCEPT !.answer = "y"],
          [none EXCEPT !.startRow = 1, !.limit = 1, !.answer = "y"],
          [none EXCEPT !.dryRun = TRUE, !.startRow = 1, !.limit = 1]}
    ELSE {none}

\* Remaining without the filter on the completed identifiers.
Remaining_NoFilter(completed) == asins

\* Remaining with the order of the task source reversed.
Remaining_Reversed(completed) ==
    LET Keep(a) == ~ArrayIncludes(completed, a)
        kept == SelectSeq(asins, Keep)
    IN  [k \in 1..Len(kept) |-> kept[Len(kept) + 1 - k]]

\* remainingAsins = asins.filter(asin => !completedAsins.has(asin))
Remaining(completed) ==
    LET Keep(a) == ~ArrayIncludes(completed, a) IN SelectSeq(asins, Keep)

\* StartRow that resumes from the stored progress whatever --start-row is.
StartRow_AlwaysResume(a) ==
    IF progressFile # <<>> /\ a.answer = "y"
    THEN progressFile[1].lastRowIndex + 1
    ELSE a.startRow

\* The start row of the API uploader after the resume prompt.
StartRow(a) ==
    IF progressFile # <<>> /\ a.startRow = 0 /\ a.answer = "y"
    THEN progressFile[1].lastRowIndex + 1
    ELSE a.startRow

\* EndIndex without the limit.
EndIndex_NoLimit(a, startRow, length) == length

\* endIndex (keyed drivers) / endRow (API uploader)
EndIndex(a, startRow, length) ==
    IF driver \in {"harvesting", "seeded"} THEN length
    ELSE IF a.limit > 0 THEN Min(startRow + a.limit, length)
    ELSE length

\* IsAuthError without the test for 401.
IsAuthError_Only403(message) == Includes(message, "403")

\* The error classes that leave the loop by a break.
IsAuthError(message) == Includes(message, "401") \/ Includes(message, "403")

IsLimitError(message) ==
    driver = "simplified" /\ Includes(message, "cannot create any more")

\* The file written by main()'s saveProgress call for the current task.
RecordOutcome(status, error) ==
    IF driver = "api"
    THEN saveProgressRow(i, GoalName(Task), status, error)
    ELSE saveProgress(Task.asin, status, error)

\* main(): the branch  if (result?.skipped)
Skipped(tr, reason) ==
    LET tr1 == Append(tr, Event("skipped", TaskIndex, 0, reason)) IN
    /\ skippedCount' = skippedCount + 1
    /\ UNCHANGED <<successCount, errorCount, halted, payload>>
    /\ IF driver = "api"
       THEN /\ progressFile' = RecordOutcome("skipped", reason)
            /\ trace' = Append(tr1, Event("save", TaskIndex, 0, "skipped"))
            /\ pc' = "loop"
            /\ i' = i + 1
       ELSE IF driver = "seeded"
       THEN /\ trace' = Append(tr1, Event("sleep", TaskIndex, 0, ""))
            /\ pc' = "sleep"
            /\ UNCHANGED <<progressFile, i>>
       ELSE /\ trace' = tr1
            /\ pc' = "loop"
            /\ i' = i + 1
            /\ UNCHANGED progressFile

\* Failed that records the task as a success.
Failed_RecordsSuccess(tr, message) ==
    LET tr1 == Append(tr, Event("save", TaskIndex, 0, "error")) IN
    /\ progressFile' = RecordOutcome("success", "")
    /\ errorCount' = errorCount + 1
    /\ UNCHANGED <<successCount, skippedCount, i, payload>>
    /\ IF IsAuthError(message) \/ IsLimitError(message)
       THEN /\ pc' = "done"
            /\ halted' = TRUE
            /\ trace' = tr1
       ELSE /\ pc' = "sleep"
            /\ trace' = Append(tr1, Event("sleep", TaskIndex, 0, ""))
            /\ UNCHANGED halted

\* main(): the catch block
Failed(tr, message) ==
    LET tr1 == Append(tr, Event("save", TaskIndex, 0, "error")) IN
    /\ progressFile' = RecordOutcome("error", message)
    /\ errorCount' = errorCount + 1
    /\ UNCHANGED <<successCount, skippedCount, i, payload>>
    /\ IF IsAuthError(message) \/ IsLimitError(message)
       THEN /\ pc' = "done"
            /\ halted' = TRUE
            /\ trace' = tr1
       ELSE /\ pc' = "sleep"
            /\ trace' = Append(tr1, Event("sleep", TaskIndex, 0, ""))
            /\ UNCHANGED halted

\* main(): the create call returned a created goal
Succeeded(tr) ==
    /\ progressFile' = RecordOutcome("success", "")
    /\ successCount' = successCount + 1
    /\ trace' = Append(Append(tr, Event("save", TaskIndex, 0, "success")),
                       Event("sleep", TaskIndex, 0, ""))
    /\ pc' = "sleep"
    /\ UNCHANGED <<errorCount, skippedCount, halted, i, payload>>

\* createGoal(): after getProductId returned productId, up to the POST
Resolved(tr, productId) ==
    IF ~Truthy(productId)
    THEN Skipped(tr, "Product not found for ASIN: " \o Task.asin)
    ELSE IF driver = "simplified" /\ Len(SearchSpaceKeywords(Task)) = 0
    THEN Skipped(tr, "No keywords found")
    ELSE /\ pc' = "create"
         /\ payload' = Payload(Task, productId)
         /\ trace' = Append(tr, Event("create", TaskIndex, 0, Task.asin))
         /\ UNCHANGED <<i, progressFile, successCount, errorCount, skippedCount, halted>>

\* FindProduct without the fallback to the first result in any driver.
FindProduct_ExactOnly(edges, asin) ==
    LET hits == {k \in 1..Len(edges) : edges[k].asin = asin} IN
    IF hits # {}
    THEN [found |-> TRUE,
          productId |-> edges[CHOOSE k \in hits : \A h \in hits : k <= h].productId]
    ELSE [found |-> FALSE, productId |-> NULL]

\* FindProduct with the fallback to the first result in every driver.
FindProduct_Fallback(edges, asin) ==
    LET hits == {k \in 1..Len(edges) : edges[k].asin = asin} IN
    IF hits # {}
    THEN [found |-> TRUE,
          productId |-> edges[CHOOSE k \in hits : \A h \in hits : k <= h].productId]
    ELSE IF Len(edges) > 0
    THEN [found |-> TRUE, productId |-> edges[1].productId]
    ELSE [found |-> FALSE, productId |-> NULL]

\* getProductId(): the product the search result yields.  Only the API
\* uploader falls back to the first result.
FindProduct(edges, asin) ==
    LET hits == {k \in 1..Len(edges) : edges[k].asin = asin} IN
    IF hits # {}
    THEN [found |-> TRUE,
          productId |-> edges[CHOOSE k \in hits : \A h \in hits : k <= h].productId]
    ELSE IF driver = "api" /\ Len(edges) > 0
    THEN [found |-> TRUE, productId |-> edges[1].productId]
    ELSE [found |-> FALSE, productId |-> NULL]

\* The remote platform may answer r: an answer that adds a failed entry to
\* the ledger is given only while the failed list is below its bound.
MayAnswer(r, recorded) ==
    IF Ok(r) \/ ~recorded \/ driver = "api"
    THEN TRUE
    ELSE Len(loadProgress.failed) < MaxFailed

\* No invocation of main() yet, no cache file and no ledger file
Idle ==
    /\ runs = 0
    /\ args = [dryRun |-> FALSE, limit |-> 0, startRow |-> 0, answer |-> "n"]
    /\ pc = "idle"
    /\ i = 0
    /\ endIndex = 0
    /\ remainingAsins = <<>>
    /\ completedAsins = {}
    /\ productCache = EmptyCache
    /\ productCacheFile = <<>>
    /\ progressFile = <<>>
    /\ successCount = 0
    /\ errorCount = 0
    /\ skippedCount = 0
    /\ halted = FALSE
    /\ response = NoResponse
    /\ payload = NoPayload
    /\ interrupted = FALSE
    /\ peerCache = <<>>
    /\ trace = <<>>

Init ==
    /\ driver \in Drivers
    /\ allKeywords \in TaskSources
    /\ Idle

\* AfterParse without the test of the dry-run flag.
AfterParse_Ignore(a) == "loop"

\* main(): if (args.dryRun) { ...print the samples...; return; }
AfterParse(a) == IF a.dryRun THEN "done" ELSE "loop"

\* main() from its start to the head of the for loop
StartRun ==
    /\ pc \in {"idle", "done"}
    /\ runs < MaxRuns
    /\ runs' = runs + 1
    /\ \E a \in ArgChoices :
        IF ~Parseable
        THEN \* loadProgress() throws: main() is rejected before the loop
             /\ args' = a
             /\ remainingAsins' = <<>>
             /\ completedAsins' = {}
             /\ endIndex' = 0
             /\ i' = 0
             /\ pc' = "done"
        ELSE
        LET completed == IF driver = "api" THEN <<>> ELSE loadProgress.completed
            remaining == Remaining(completed)
            startRow  == IF driver = "api" THEN StartRow(a) ELSE 0
            length    == IF driver = "api" THEN Len(allKeywords) ELSE Len(remaining)
        IN  /\ args' = [a EXCEPT !.startRow = startRow]
            /\ remainingAsins' = remaining
            /\ completedAsins' = {completed[k] : k \in 1..Len(completed)}
            /\ endIndex' = EndIndex(a, startRow, length)
            /\ i' = startRow
            /\ pc' = AfterParse(a)
    /\ productCache' = loadProductCache
    /\ successCount' = 0
    /\ errorCount' = 0
    /\ skippedCount' = 0
    /\ halted' = FALSE
    /\ response' = NoResponse
    /\ payload' = NoPayload
    /\ interrupted' = FALSE
    /\ trace' = <<>>
    /\ UNCHANGED <<driver, allKeywords, productCacheFile, progressFile, peerCache>>

\* The head of the for loop and createGoal() up to its first fetch
NextTask ==
    /\ pc = "loop"
    /\ UNCHANGED <<runConfig, productCache, productCacheFile, response>>
    /\ IF i >= endIndex
       THEN /\ pc' = "done"
            /\ UNCHANGED <<i, trace, progressFile, successCount, errorCount,
                           skippedCount, halted, payload>>
       ELSE LET cached == CacheGet(productCache, Task.asin) IN
            IF Truthy(cached)
            THEN Resolved(trace, cached)
            ELSE /\ pc' = "lookup"
                 /\ trace' = Append(trace, Event("lookup", TaskIndex, 0, Task.asin))
                 /\ UNCHANGED <<i, progressFile, successCount, errorCount,
                                skippedCount, halted, payload>>

\* The product search responds: the rest of getProductId() and what follows
LookupResponse ==
    /\ pc = "lookup"
    /\ \E r \in LookupResponses(Task.asin) :
        LET tr == Append(trace, Event("lookupResponse", TaskIndex, r.status, r.body)) IN
        /\ MayAnswer(r, driver = "seeded")
        /\ response' = r
        /\ IF ~Ok(r)
           THEN /\ UNCHANGED <<productCache, productCacheFile>>
                /\ IF driver = "seeded"
                   THEN Failed(tr, GraphqlError(r))
                   ELSE Resolved(tr, NULL)
           ELSE LET product == FindProduct(r.edges, Task.asin) IN
                IF product.found
                THEN /\ productCache' = CachePut(productCache, Task.asin, product.productId)
                     /\ productCacheFile' = saveProductCache(productCache')
                     /\ Resolved(tr, product.productId)
                ELSE /\ UNCHANGED <<productCache, productCacheFile>>
                     /\ Resolved(tr, NULL)
    /\ UNCHANGED runConfig

\* The create endpoint responds: the rest of the loop body
CreateResponse ==
    /\ pc = "create"
    /\ \E r \in CreateResponses :
        LET tr == Append(trace, Event("createResponse", TaskIndex, r.status, r.body)) IN
        /\ MayAnswer(r, TRUE)
        /\ response' = r
        /\ IF Ok(r) THEN Succeeded(tr) ELSE Failed(tr, ApiError(r))
    /\ UNCHANGED <<runConfig, productCache, productCacheFile>>

\* SleepDone that starts the loop again from its first task.
SleepDone_Restart ==
    /\ pc = "sleep"
    /\ pc' = "loop"
    /\ i' = 0
    /\ UNCHANGED <<runConfig, productCache, productCacheFile, progressFile,
                   successCount, errorCount, skippedCount, halted, response,
                   payload, trace>>

\* SleepDone without the increment of the loop index.
SleepDone_Stay ==
    /\ pc = "sleep"
    /\ pc' = "loop"
    /\ UNCHANGED <<runConfig, productCache, productCacheFile, progressFile,
                   successCount, errorCount, skippedCount, halted, response,
                   payload, trace, i>>

\* await sleep(CONFIG.delayBetweenRequests) returns
SleepDone ==
    /\ pc = "sleep"
    /\ pc' = "loop"
    /\ i' = i + 1
    /\ UNCHANGED <<runConfig, productCache, productCacheFile, progressFile,
                   successCount, errorCount, skippedCount, halted, response,
                   payload, trace>>

\* The exit status of the process of a run that has ended.  main() returns
\* after the loop, left by a break or not, and after the dry-run listing;
\* nothing calls process.exit or sets process.exitCode, and a rejection of
\* main() is handled by .catch(console.error).
ExitStatus == IF pc = "done" THEN 0 ELSE NULL

Next == StartRun \/ NextTask \/ LookupResponse \/ CreateResponse \/ SleepDone

Spec == Init /\ [][Next]_vars

\* The message of the Error thrown by fs.writeFileSync when the cache file
\* cannot be written
WriteError == "EACCES: permission denied, open 'product_cache.json'"

\* The product search responds with the product, and the write of the cache
\* file in saveProductCache() fails: the rest of getProductId() and what
\* follows.  The in-memory cache was assigned before the write.
CacheWriteFails ==
    /\ pc = "lookup"
    /\ driver = "seeded" => Len(loadProgress.failed) < MaxFailed
    /\ \E r \in LookupResponses(Task.asin) :
        LET product == FindProduct(r.edges, Task.asin)
            tr == Append(Append(trace,
                      Event("lookupResponse", TaskIndex, r.status, r.body)),
                      Event("writeError", TaskIndex, 0, WriteError))
        IN  /\ Ok(r)
            /\ product.found
            /\ response' = r
            /\ productCache' = CachePut(productCache, Task.asin, product.productId)
            /\ UNCHANGED productCacheFile
            /\ IF driver = "seeded"
               THEN Failed(tr, WriteError)
               ELSE Resolved(tr, NULL)
    /\ UNCHANGED runConfig

NextIo ==
    StartRun \/ NextTask \/ LookupResponse \/ CreateResponse \/ SleepDone
        \/ CacheWriteFails

\* The runs, with writes of the cache file that may fail
SpecIo == Init /\ [][NextIo]_vars

\* The runs over a one-task source, for the payloads
InitGoal ==
    /\ driver \in Drivers
    /\ allKeywords \in GoalSources
    /\ Idle

SpecGoal == InitGoal /\ [][Next]_vars

\* The process is killed between two steps of main().
Interrupt ==
    /\ pc \in {"loop", "lookup", "create", "sleep"}
    /\ pc' = "done"
    /\ interrupted' = TRUE
    /\ UNCHANGED <<driver, allKeywords, runs, args, i, endIndex, remainingAsins,
                   completedAsins, productCache, productCacheFile, progressFile,
                   successCount, errorCount, skippedCount, halted, response,
                   payload, trace, peerCache>>

\* The step in progress writes the ledger.
WritesLedger ==
    \/ pc = "create"
    \/ pc = "lookup" /\ driver \in {"seeded", "api"}

\* The process is killed inside fs.writeFileSync(CONFIG.progressFile, ...),
\* after the file was truncated and before the document was written out.
TornWrite ==
    /\ WritesLedger
    /\ progressFile' = <<Torn>>
    /\ pc' = "done"
    /\ interrupted' = TRUE
    /\ UNCHANGED <<driver, allKeywords, runs, args, i, endIndex, remainingAsins,
                   completedAsins, productCache, productCacheFile,
                   successCount, errorCount, skippedCount, halted, response,
                   payload, trace, peerCache>>

NextCrash ==
    StartRun \/ NextTask \/ LookupResponse \/ CreateResponse \/ SleepDone
        \/ Interrupt \/ TornWrite

\* The runs, with kills of the process at any point
SpecCrash == Init /\ [][NextCrash]_vars

\* Ledger files without a duplicate in the completed list.
Ledgers ==
    { <<>>, <<EmptyProgress>>,
      <<[completed |-> <<"X">>, failed |-> <<>>]>>,
      <<[completed |-> <<"Y", "X">>,
         failed |-> <<[asin |-> "Z", error |-> "API error 500: Server error"]>>]>> }

\* A keyed uploader's ledger file on its own, before any call of saveProgress
InitLedger ==
    /\ driver \in KeyedDrivers
    /\ allKeywords \in TaskSources
    /\ progressFile \in Ledgers
    /\ runs = 0
    /\ args = [dryRun |-> FALSE, limit |-> 0, startRow |-> 0, answer |-> "n"]
    /\ pc = "idle"
    /\ i = 0
    /\ endIndex = 0
    /\ remainingAsins = <<>>
    /\ completedAsins = {}
    /\ productCache = EmptyCache
    /\ productCacheFile = <<>>
    /\ successCount = 0
    /\ errorCount = 0
    /\ skippedCount = 0
    /\ halted = FALSE
    /\ response = NoResponse
    /\ payload = NoPayload
    /\ interrupted = FALSE
    /\ peerCache = <<>>
    /\ trace = <<>>

\* One call of saveProgress(asin, status, error), for any identifier of the
\* task source and either status.
Record ==
    /\ pc = "idle"
    /\ Len(trace) < MaxRecords
    /\ \E k \in 1..Len(asins), status \in {"success", "error"} :
        /\ progressFile' = saveProgress(asins[k], status, "API error 500: Server error")
        /\ trace' = Append(trace, Event("save", k - 1, 0, status))
    /\ UNCHANGED <<runConfig, pc, i, productCache, productCacheFile, successCount,
                   errorCount, skippedCount, halted, response, payload>>

\* Any sequence of success and error recordings on a ledger
SpecLedger == InitLedger /\ [][Record]_vars

\* The API uploader first
InitShared ==
    /\ driver = "api"
    /\ allKeywords \in TaskSources
    /\ Idle

\* After the runs of the API uploader the operator starts a keyed uploader in
\* the same directory: every uploader's CONFIG.productCachePath is
\* product_cache.json next to the script, while the ledger file is another
\* one, not written yet.
SwitchDriver ==
    /\ driver = "api"
    /\ pc = "done"
    /\ driver' \in KeyedDrivers
    /\ allKeywords' \in KeywordFiles
    /\ progressFile' = <<>>
    /\ pc' = "idle"
    /\ i' = 0
    /\ endIndex' = 0
    /\ remainingAsins' = <<>>
    /\ completedAsins' = {}
    /\ productCache' = EmptyCache
    /\ successCount' = 0
    /\ errorCount' = 0
    /\ skippedCount' = 0
    /\ halted' = FALSE
    /\ response' = NoResponse
    /\ payload' = NoPayload
    /\ interrupted' = FALSE
    /\ trace' = <<>>
    /\ args' = [dryRun |-> FALSE, limit |-> 0, startRow |-> 0, answer |-> "n"]
    /\ UNCHANGED <<runs, productCacheFile, peerCache>>

NextShared == Next \/ SwitchDriver

\* The uploaders run one after the other over one cache file
SpecShared == InitShared /\ [][NextShared]_vars

\* One uploader, with a second one beside it
InitPeers ==
    /\ driver = "simplified"
    /\ allKeywords \in TaskSources
    /\ Idle

\* The frame of a step of the second uploader process
PeerFrame ==
    UNCHANGED <<driver, allKeywords, runs, args, pc, i, endIndex, remainingAsins,
                completedAsins, productCache, progressFile, successCount,
                errorCount, skippedCount, halted, response, payload,
                interrupted, trace>>

\* A second uploader process starts in the same directory: loadProductCache()
PeerStart ==
    /\ peerCache = <<>>
    /\ peerCache' = <<loadProductCache>>
    /\ UNCHANGED productCacheFile
    /\ PeerFrame

\* getProductId() of the second process finds the product of an identifier
\* that its cache does not hold: productCache[asin] = productId and
\* saveProductCache(), which writes the whole in-memory map of that process.
PeerResolve ==
    /\ peerCache # <<>>
    /\ \E k \in 1..Len(asins) :
        /\ ~Truthy(CacheGet(peerCache[1], asins[k]))
        /\ peerCache' = <<CachePut(peerCache[1], asins[k], RemoteProductId(asins[k]))>>
        /\ productCacheFile' = saveProductCache(peerCache'[1])
    /\ PeerFrame

NextPeers == Next \/ PeerStart \/ PeerResolve

\* Two uploader processes at the same time over one cache file
SpecPeers == InitPeers /\ [][NextPeers]_vars

-----------------------------------------------------------------------------
(* Properties *)

\* The identifier of the task of an event
AsinOf(e) == asins[e.task + 1]

\* The remote calls of the run
IsRequest(e) == e.op \in {"lookup", "create"}

\* The persisted ledger holds an error entry of the task with the message.
LedgerHasError(task, message) ==
    /\ progressFile # <<>>
    /\ IF driver = "api"
       THEN /\ progressFile[1].lastRowIndex = task
            /\ progressFile[1].status = "error"
            /\ progressFile[1].error = message
       ELSE ArrayIncludes(progressFile[1].failed,
                          [asin |-> asins[task + 1], error |-> message])

\* The event at position k of trace is the last thing the run did for its
\* task before the run was halted: the error is recorded, and nothing follows.
HaltsAt(k, message) ==
    /\ Len(trace) = k + 1
    /\ trace[k + 1] = Event("save", trace[k].task, 0, "error")
    /\ LedgerHasError(trace[k].task, message)
    /\ halted
    /\ pc = "done"

\* C1: a task whose identifier is in the ledger's completed list when the run
\* starts gets no lookup, no create call and no ledger write in that run (with
\* completed = {X, Y} and task source {X, Y, Z}, only Z is attempted).
C1_IdempotentResume ==
    driver \in KeyedDrivers =>
        \A k \in 1..Len(trace) : AsinOf(trace[k]) \notin completedAsins

C1_Witness ==
    /\ completedAsins = {"X", "Y"}
    /\ pc = "done"
    /\ \E k \in 1..Len(trace) : IsRequest(trace[k]) /\ AsinOf(trace[k]) = "Z"

\* The success entries of the persisted ledger
SuccessEntries ==
    IF progressFile = <<>> THEN {}
    ELSE IF driver = "api"
    THEN IF progressFile[1].status = "success"
         THEN {progressFile[1].lastRowIndex} ELSE {}
    ELSE {asins[k] : k \in {j \in 1..Len(asins) :
                              ArrayIncludes(progressFile[1].completed, asins[j])}}

\* C2: the ledger is append/merge-only: every success entry that is in the
\* persisted ledger before a step is still in it after the step.
C2_AppendOnly == [][SuccessEntries \subseteq SuccessEntries']_vars

\* C3: when a create call returns HTTP 401, the driver records an error entry
\* for the task in the ledger and halts: nothing is done for any later task.
C3_Create401Halts ==
    \A k \in 1..Len(trace) :
        (trace[k].op = "createResponse" /\ trace[k].status = 401)
            => HaltsAt(k, ApiError([status |-> 401, body |-> trace[k].arg]))

C3_Witness ==
    /\ \E k \in 1..Len(trace) : trace[k].op = "createResponse" /\ trace[k].status = 401
    /\ i + 1 < endIndex

\* C4: when a create call fails because the account reached its goal limit,
\* the driver records the error and halts, in every API batch driver.
C4_LimitHalts ==
    \A k \in 1..Len(trace) :
        (trace[k].op = "createResponse"
            /\ Includes(trace[k].arg, "cannot create any more"))
            => HaltsAt(k, ApiError([status |-> trace[k].status, body |-> trace[k].arg]))

\* The create response is a failure of the recoverable class: not 2xx, not
\* an authentication rejection (401, 403), not the account-limit rejection.
Recoverable(e) ==
    /\ e.op = "createResponse"
    /\ ~(e.status >= 200 /\ e.status <= 299)
    /\ e.status \notin {401, 403}
    /\ ~Includes(e.arg, "cannot create any more")

\* C5: after a create call that fails in the recoverable class, whatever the
\* response body, the error is recorded with its detail and the run goes on.
C5_RecoverableContinues ==
    \A k \in 1..Len(trace) :
        Recoverable(trace[k]) =>
            /\ Len(trace) >= k + 2
            /\ trace[k + 1] = Event("save", trace[k].task, 0, "error")
            /\ trace[k + 2].op = "sleep"
            /\ ~halted

\* C6: a 401 of the product search call halts the run: no further task is
\* attempted.
C6_Lookup401Halts ==
    \A k \in 1..Len(trace) :
        (trace[k].op = "lookupResponse" /\ trace[k].status = 401)
            => (halted /\ pc = "done" /\ \A j \in k..Len(trace) : trace[j].task = trace[k].task)

\* The ledger's failed list
FailedList ==
    IF progressFile = <<>> \/ driver = "api" THEN <<>> ELSE progressFile[1].failed

\* The lookup response yields no product id for the identifier.
NoProduct(r, asin) == ~Ok(r) \/ ~FindProduct(r.edges, asin).found

\* C7: when product resolution yields no product id, no create call is issued
\* for the task and it is counted as a skip: the error count and the ledger's
\* failed list are unchanged.
C7_NotFoundIsSkip ==
    [][(pc = "lookup" /\ pc' # "lookup" /\ NoProduct(response', Task.asin))
        => /\ pc' # "create"
           /\ skippedCount' = skippedCount + 1
           /\ errorCount' = errorCount
           /\ FailedList' = FailedList]_vars

\* The persisted ledger holds a record of the task with outcome skipped.
LedgerHasSkipped(task) ==
    /\ progressFile # <<>>
    /\ driver = "api"
    /\ progressFile[1].lastRowIndex = task
    /\ progressFile[1].status = "skipped"

\* C8: every skipped task gets a persisted ledger record with outcome skipped
\* before the next task starts: from the skip until the next task's first step
\* the ledger holds the record.
C8_SkipRecorded ==
    \A k \in 1..Len(trace) :
        (trace[k].op = "skipped" /\ trace[Len(trace)].task = trace[k].task)
            => LedgerHasSkipped(trace[k].task)

\* C9: after every attempt that does not halt the run, the driver sleeps the
\* inter-task delay before it starts the next task.
C9_DelayAfterEveryAttempt ==
    \A k \in 2..Len(trace) :
        trace[k].task # trace[k - 1].task => trace[k - 1].op = "sleep"

\* The events of one task come in the order of the loop body.
StepRank(op) ==
    CASE op = "lookup" -> 1 [] op = "lookupResponse" -> 2 [] op = "create" -> 3
      [] op = "createResponse" -> 4 [] op = "skipped" -> 5 [] op = "save" -> 6
      [] op = "sleep" -> 7

\* The create calls that have not been answered
InFlight ==
    Cardinality({k \in 1..Len(trace) : trace[k].op = "create"})
        - Cardinality({k \in 1..Len(trace) : trace[k].op = "createResponse"})

SuccessEntry(task) == IF driver = "api" THEN task ELSE asins[task + 1]

\* The tasks the run has attempted before position k of trace
AttemptedBefore(k) == {trace[j].task : j \in 1..(k - 1)}

\* C11: the outcome of a task is written to the persisted ledger before any
\* lookup or create call of the next task is issued, and the persisted ledger
\* contains every success the run has recorded so far.
C11_OutcomePersistedFirst ==
    /\ \A k \in 1..Len(trace) :
           IsRequest(trace[k]) =>
               \A t \in AttemptedBefore(k) \ {trace[k].task} :
                   \E j \in 1..(k - 1) : trace[j].op = "save" /\ trace[j].task = t
    /\ \A k \in 1..Len(trace) :
           trace[k] = Event("save", trace[k].task, 0, "success") =>
               SuccessEntry(trace[k].task) \in SuccessEntries

\* The successes recorded up to now: those of the ledger the run started
\* from, and those the run has saved.
RecordedSuccesses ==
    (IF driver = "api" THEN {} ELSE completedAsins)
    \cup {SuccessEntry(trace[k].task) :
              k \in {j \in 1..Len(trace) :
                        trace[j] = Event("save", trace[j].task, 0, "success")}}

\* C12: ledger writes are all-or-nothing: after the process was killed, at any
\* point and also in the middle of a write, the ledger file is parseable and
\* contains every success recorded before.
C12_AtomicLedger ==
    interrupted =>
        /\ Parseable
        /\ driver \in KeyedDrivers => RecordedSuccesses \subseteq SuccessEntries

\* The tasks the run ended with outcome error or skipped, with no success
\* entry in the persisted ledger
Unsuccessful ==
    {t \in {trace[k].task : k \in {j \in 1..Len(trace) :
                 \/ trace[j].op = "skipped"
                 \/ trace[j] = Event("save", trace[j].task, 0, "error")}} :
        SuccessEntry(t) \notin SuccessEntries}

\* The tasks a run selects at its start: the rows from the start row on in
\* the API uploader, the remaining identifiers in the keyed drivers.
Selected ==
    IF driver = "api"
    THEN i..(Len(allKeywords) - 1)
    ELSE {IndexOf(remainingAsins[k]) : k \in 1..Len(remainingAsins)}

\* C13: a task whose outcome was error or skipped, with no success recorded,
\* is not excluded from the next run (a run started with an explicit start row
\* aside): it is selected again.
C13_UnsuccessfulRetried ==
    [][(runs' = runs + 1 /\ ~(args'.answer = "n" /\ args'.startRow > 0))
          => Unsuccessful \subseteq Selected']_vars

\* The goal name before any truncation: the CSV column in the API uploader,
\* the name derived from the SKU in the keyed drivers
UntruncatedName(task) ==
    IF driver = "api" THEN task.goalName ELSE task.sku \o " -JN[SP_NON-BRANDED]"

\* C14: the title of every payload sent to the create endpoint has at most 60
\* characters, and when the untruncated name is longer than 60 characters the
\* title is exactly its first 60 characters.
C14_TitleAtMost60 ==
    pc = "create" =>
        LET name == UntruncatedName(Task) IN
        /\ Len(payload.title) <= 60
        /\ Len(name) > 60 => payload.title = SubSeq(name, 1, 60)

\* C20: for a task in keyword mode the harvesting mode of the payload is
\* manual approval exactly when the segment of the task is branded, and
\* automatic activation for every other segment, whatever the SKU and the
\* goal name contain.
C20_HarvestingBySegment ==
    (pc = "create" /\ Task.campaignType = "SingleCampaign_KW") =>
        payload.harvesting_mode =
            IF Task.segment = "branded" THEN "MANUALLY_APPROVE"
                                        ELSE "AUTOMATICALLY_ADD"

\* The resolve of the task of the event returned a product id: createGoal()
\* went on past its  if (!productId)  test.
ReturnedId(e) ==
    e.op = "create" \/ (e.op = "skipped" /\ e.arg = "No keywords found")

\* C15 as stated: within one run the same identifier is looked up remotely at
\* most once, whatever the first lookup returned.
C15_AtMostOneLookup ==
    \A k, m \in 1..Len(trace) :
        (k < m /\ trace[k].op = "lookup" /\ trace[m].op = "lookup")
            => AsinOf(trace[k]) # AsinOf(trace[m])

\* C15: within one run, once a resolve of an identifier has returned a product
\* id, no later resolve of that identifier issues a remote lookup: it is
\* answered from the cache.  (A resolve that returned NotFound is not cached.)
C15_NoLookupAfterFound ==
    \A k, m \in 1..Len(trace) :
        (k < m /\ ReturnedId(trace[k]) /\ trace[m].op = "lookup")
            => AsinOf(trace[k]) # AsinOf(trace[m])

C15_Witness ==
    \E k, m \in 1..Len(trace) :
        /\ k < m
        /\ trace[k].op = "lookupResponse" /\ trace[k + 1].op = "create"
        /\ trace[m].op = "create" /\ trace[m - 1].op # "lookupResponse"
        /\ trace[k].task # trace[m].task
        /\ AsinOf(trace[k]) = AsinOf(trace[m])

\* The loop is about to resolve a task whose identifier the cache, as loaded
\* from the cache file, maps to a product id.
ResolvesCached ==
    /\ pc = "loop"
    /\ i < endIndex
    /\ productCacheFile # <<>>
    /\ Task.asin \in DOMAIN productCacheFile[1]
    /\ productCache = productCacheFile[1]

\* C16: when the persisted cache maps the identifier of a task to a product
\* id, the resolve of the task issues no remote lookup and returns exactly the
\* cached id, for every product id value the cache can hold.
C16_CacheHitNoLookup ==
    [][ResolvesCached =>
          /\ pc' # "lookup"
          /\ pc' = "create" => payload'.product_id = productCache[Task.asin]]_vars

\* The resolve of the current task has just returned a product id that came
\* from a remote lookup.
ReturnedFromLookup ==
    /\ pc = "create"
    /\ Len(trace) >= 2
    /\ trace[Len(trace) - 1].op = "lookupResponse"

\* C17: when a resolve returns a product id obtained from a remote lookup, the
\* cache file already holds the mapping, and after every resolve the persisted
\* cache equals the in-memory cache.
C17_CachePersisted ==
    /\ loadProductCache = productCache
    /\ ReturnedFromLookup =>
           /\ productCacheFile # <<>>
           /\ Task.asin \in DOMAIN productCacheFile[1]
           /\ productCacheFile[1][Task.asin] = payload.product_id

C17_Witness ==
    /\ ReturnedFromLookup
    /\ DOMAIN productCache = {"X", "Y"}
    /\ productCacheFile = <<productCache>>

\* C18: when a product lookup fails remotely or returns an empty result set,
\* the resolve returns NotFound and raises nothing (the task is skipped as
\* product not found, no error is counted or recorded), and both the in-memory
\* cache and the cache file are unchanged, so that the identifier is still
\* unresolved for a later resolve.
C18_LookupFailureIsNotFound ==
    [][(pc = "lookup" /\ pc' # "lookup"
           /\ (~Ok(response') \/ response'.edges = <<>>))
          => /\ trace'[Len(trace')].op # "create"
             /\ \E k \in 1..Len(trace') :
                    trace'[k] = Event("skipped", TaskIndex, 0,
                                     trace'[k].arg)
             /\ errorCount' = errorCount
             /\ productCache' = productCache
             /\ productCacheFile' = productCacheFile
             /\ ~Truthy(CacheGet(productCache', Task.asin))]_vars

\* The positions of the results whose identifier equals a exactly
ExactMatches(edges, a) == {k \in 1..Len(edges) : edges[k].asin = a}

\* C19: in the drivers without the first-result fallback (simplified,
\* harvesting-only, seeded) a lookup yields a product id only when some result
\* has exactly the queried identifier, and then the id of the first such
\* result; a result set with no exact match yields NotFound and no cache write.
C19_ExactMatchOnly ==
    [][(pc = "lookup" /\ pc' # "lookup" /\ driver # "api" /\ Ok(response'))
          => LET edges == response'.edges
                 hits  == ExactMatches(edges, Task.asin)
             IN  IF hits = {}
                 THEN /\ trace'[Len(trace')].op # "create"
                      /\ productCache' = productCache
                      /\ productCacheFile' = productCacheFile
                 ELSE \E k \in hits :
                      /\ \A h \in hits : k <= h
                      /\ productCache' =
                             CachePut(productCache, Task.asin, edges[k].productId)
                      /\ productCacheFile' = <<productCache'>>
                      /\ trace'[Len(trace')].op = "create"
                             => payload'.product_id = edges[k].productId]_vars

C19_Witness ==
    /\ driver \in KeyedDrivers
    /\ ReturnedFromLookup
    /\ response.edges = <<Node("W"), Node(Task.asin), Variant(Task.asin)>>
    /\ payload.product_id = RemoteProductId(Task.asin)
    /\ \E k \in 2..Len(trace) :
           /\ trace[k].op = "skipped"
           /\ trace[k - 1] = Event("lookupResponse", trace[k].task, 200, "")

\* The number of occurrences of x in the sequence
Count(seq, x) == Cardinality({k \in 1..Len(seq) : seq[k] = x})

\* The sequences hold the same elements, each as many times
SameBag(a, b) ==
    /\ Len(a) = Len(b)
    /\ \A k \in 1..Len(a) : Count(a, a[k]) = Count(b, a[k])

\* One entry per positive term of the task, with its text and match type
TermEntries(task) ==
    LET E(t) == [keyword_text |-> t.text, match_type |-> t.match]
    IN  Map(task.positive, E)

\* A create call is issued by the simplified uploader for a keyword task of
\* the unbranded segment with a non-empty term list.
UnbrandedKeywordCreate ==
    /\ driver = "simplified"
    /\ pc = "create"
    /\ Task.segment = "unbranded"
    /\ Task.positive # <<>>

\* C21 as stated: the title is the SKU followed by ' -JN[SP_NON-BRANDED]',
\* whatever the length of the SKU; one search-space entry per term;
\* harvesting mode auto-activate.
C21_FullTitle ==
    UnbrandedKeywordCreate =>
        /\ payload.title = Task.sku \o " -JN[SP_NON-BRANDED]"
        /\ SameBag(payload.search_space_keywords, TermEntries(Task))
        /\ payload.harvesting_mode = "AUTOMATICALLY_ADD"

\* C21: for a keyword task of the unbranded segment with SKU s, a resolvable
\* product and a non-empty term list, the payload of the simplified uploader
\* has as title the first 60 characters of s followed by
\* ' -JN[SP_NON-BRANDED]' (the whole name when it is not longer), exactly one
\* search-space entry per input term with the text and match type of the
\* term, and harvesting mode auto-activate.
C21_UnbrandedKeywordPayload ==
    UnbrandedKeywordCreate =>
        LET name == Task.sku \o " -JN[SP_NON-BRANDED]" IN
        /\ payload.title = IF Len(name) > 60 THEN SubSeq(name, 1, 60) ELSE name
        /\ SameBag(payload.search_space_keywords, TermEntries(Task))
        /\ payload.harvesting_mode = "AUTOMATICALLY_ADD"

C21_Witness ==
    /\ UnbrandedKeywordCreate
    /\ Len(Task.sku) > 40
    /\ Len(payload.title) = 60
    /\ Len(payload.search_space_keywords) = 4
    /\ payload.product_id = RemoteProductId(Task.asin)

\* C22: for every product-attribute (PAT) task for which a create call is
\* issued, every search-space entry of the payload has match kind
\* TARGETING_EXPRESSION and the payload carries no harvesting block, also when
\* the PAT target list of the task is empty.
C22_PatPayload ==
    (pc = "create" /\ Task.campaignType = "SingleCampaign_PAT") =>
        /\ \A k \in 1..Len(payload.search_space_keywords) :
               payload.search_space_keywords[k].match_type = "TARGETING_EXPRESSION"
        /\ payload.harvesting_mode = "none"

\* An entry with its text in lower case (product identifiers are compared
\* without regard to case)
Canon(e) == [e EXCEPT !.keyword_text = ToLowerCase(@)]

\* One entry per negative of the task: exact-match negative keywords tagged
\* EXACT, phrase-match ones tagged PHRASE, negative product targets tagged
\* TARGETING_EXPRESSION
NegativeEntries(task) ==
    LET Exact(t)  == [keyword_text |-> t, match_type |-> "EXACT"]
        Phrase(t) == [keyword_text |-> t, match_type |-> "PHRASE"]
        Target(t) == [keyword_text |-> t, match_type |-> "TARGETING_EXPRESSION"]
    IN  Map(task.negativeExact, Exact) \o Map(task.negativePhrase, Phrase)
            \o Map(task.negativeAsins, Target)

\* C23: the negative collection of the payload contains exactly one entry per
\* exact-match negative keyword (tagged EXACT), per phrase-match negative
\* keyword (tagged PHRASE) and per negative product target (tagged
\* TARGETING_EXPRESSION), and no other entry.
C23_NegativesMerged ==
    pc = "create" =>
        SameBag(Map(payload.negative_keyword_overrides, Canon),
                Map(NegativeEntries(Task), Canon))

C23_Witness ==
    /\ pc = "create"
    /\ Len(Task.negativeExact) = 2
    /\ Len(Task.negativePhrase) = 1
    /\ Len(Task.negativeAsins) = 1
    /\ Len(payload.negative_keyword_overrides) = 4
    /\ payload.negative_keyword_overrides[4] =
           [keyword_text |-> "b0ccc3", match_type |-> "TARGETING_EXPRESSION"]

\* The task of the event is in keyword mode and has no positive term.
EmptyKeywordTask(e) ==
    /\ allKeywords[e.task + 1].campaignType = "SingleCampaign_KW"
    /\ allKeywords[e.task + 1].matchType # "PAT"
    /\ allKeywords[e.task + 1].positive = <<>>

\* C24: for a keyword-mode task whose positive term list is empty, outside
\* the harvesting-only uploader, the driver records a skip with reason 'No
\* keywords found' and issues no create call.
C24_EmptyTermsSkipped ==
    driver # "harvesting" =>
        \A k \in 1..Len(trace) :
            (ReturnedId(trace[k]) /\ EmptyKeywordTask(trace[k]))
                => trace[k] = Event("skipped", trace[k].task, 0, "No keywords found")

\* C25: a failure to read or write the cache file or the ledger file is fatal
\* to the run: it is the last thing the run does (no skip or error of the
\* current task is made of it, no further task is attempted).
C25_FileFailureIsFatal ==
    \A k \in 1..Len(trace) :
        trace[k].op = "writeError" => (k = Len(trace) /\ pc = "done")

\* C26: a run that is halted by a fatal-auth or fatal-limit error ends with a
\* non-zero exit status, and a remote-call error of any other class does not
\* end the run: the loop goes on after the error is recorded.
C26_FatalExitStatus ==
    /\ (pc = "done" /\ halted) => ExitStatus # 0
    /\ \A k \in 1..Len(trace) :
           (trace[k] = Event("save", trace[k].task, 0, "error") /\ ~halted)
               => (k < Len(trace) /\ trace[k + 1].op = "sleep")

\* C27: in a dry run no step issues a create call and no step changes the
\* progress ledger or the product cache file, whatever the task source, the
\* start offset and the limit are.
C27_DryRunNoEffect ==
    [][args'.dryRun =>
          /\ progressFile' = progressFile
          /\ productCacheFile' = productCacheFile
          /\ pc' \notin {"lookup", "create"}
          /\ trace' = <<>>]_vars

\* A dry run with a limit or a start offset has ended over a ledger that an
\* earlier run has written.
C27_Witness ==
    /\ args.dryRun
    /\ args.limit > 0
    /\ pc = "done"
    /\ runs = 2
    /\ progressFile # <<>>
    /\ progressFile # EmptyProgress

\* The tasks the current run has attempted, as positions in the task source.
Attempted == {trace[k].task : k \in 1..Len(trace)}

\* The first n tasks of the remaining work of the current run: the rows from
\* the start offset in the row-indexed uploader, the identifiers that are not
\* completed in the keyed uploaders.
FirstRemaining(n) ==
    IF driver = "api"
    THEN {j \in args.startRow..(Len(allKeywords) - 1) : j < args.startRow + n}
    ELSE {IndexOf(remainingAsins[j]) : j \in 1..Min(n, Len(remainingAsins))}

\* C28: with a limit N > 0 a run attempts at most N tasks, skipped ones
\* included, and they are the first tasks of the remaining work, taken in
\* order without a gap; with N = 0 a run that ends without a halt has
\* attempted every remaining task.
C28_LimitBoundsRun ==
    /\ args.limit > 0 =>
          /\ Cardinality(Attempted) <= args.limit
          /\ Attempted \subseteq FirstRemaining(args.limit)
          /\ \A k, m \in 1..Len(trace) : k < m => trace[k].task <= trace[m].task
          /\ \A t \in Attempted : \A u \in FirstRemaining(args.limit) :
                 u < t => u \in Attempted
    /\ (args.limit = 0 /\ runs > 0 /\ pc = "done" /\ ~halted /\ ~args.dryRun) =>
          Attempted = FirstRemaining(Len(allKeywords))

\* A run with limit 2 has ended after two tasks, one of them skipped, and a
\* third remaining task was left alone.
C28_Witness ==
    /\ args.limit = 2
    /\ ~args.dryRun
    /\ pc = "done"
    /\ ~halted
    /\ Cardinality(Attempted) = 2
    /\ skippedCount = 1
    /\ Cardinality(FirstRemaining(Len(allKeywords))) = 3

\* C29: within one run at most one create call is issued per task, whatever
\* the outcome of the call: two create calls of a run are for two tasks.
C29_SingleAttempt ==
    \A k, m \in 1..Len(trace) :
        (k < m /\ trace[k].op = "create" /\ trace[m].op = "create")
            => trace[k].task # trace[m].task

\* The create call of a task was answered with a recoverable error and with a
\* success for another task, and the run has issued the create call of a
\* later task.
C29_Witness ==
    \E k, l, m \in 1..Len(trace) :
        /\ k < m /\ l < m /\ k # l
        /\ trace[k] = Event("createResponse", trace[k].task, 500, "Server error")
        /\ trace[l] = Event("createResponse", trace[l].task, 200, "")
        /\ trace[m].op = "create"

\* The driver under the scheduling of its runtime: a step of the driver itself
\* (the loop head, the return of the sleep timer) is taken when it is enabled.
\* The remote platform is under no obligation to answer: apiRequest and
\* graphqlRequest await fetch(url, options) with no timeout and no abort
\* signal, so no fairness is assumed for LookupResponse and CreateResponse.
\* A rejection of fetch by the runtime (a refused connection, a timeout the
\* runtime applies by default) reaches the driver as an error of the
\* recoverable class, like the responses with status 500.
SpecLive == Init /\ [][Next]_vars /\ WF_vars(NextTask) /\ WF_vars(SleepDone)

\* C30: a remote call does not block the driver forever: whether or not the
\* call completes, the driver eventually leaves it (a call that never
\* completes is given up as a recoverable error and the run proceeds).
C30_CallEventuallyGivenUp ==
    (pc \in {"lookup", "create"}) ~> (pc \notin {"lookup", "create"})

\* C31: in the seeded harvesting uploader every payload sent to the create
\* endpoint has a non-empty search space, also for a task without positive
\* terms.
C31_SeededSearchSpaceNonEmpty ==
    (driver = "seeded" /\ pc = "create") => Len(payload.search_space_keywords) > 0

\* The id the API uploader is to take from a non-empty result set: that of
\* the first result with the queried identifier, else that of the first result.
BestEffortId(edges, a) ==
    LET hits == ExactMatches(edges, a) IN
    IF hits # {}
    THEN edges[CHOOSE k \in hits : \A h \in hits : k <= h].productId
    ELSE edges[1].productId

\* C32: in the API uploader a lookup that returns a non-empty result set
\* yields the id of the first result with the queried identifier, whatever
\* its position, else the id of the first result; the id is in the in-memory
\* cache and in the cache file under the queried identifier when the resolve
\* returns, and it is the product id of the create call that follows.
C32_FirstResultFallback ==
    [][(pc = "lookup" /\ pc' # "lookup" /\ driver = "api" /\ Ok(response')
           /\ response'.edges # <<>>)
          => LET id == BestEffortId(response'.edges, Task.asin) IN
             /\ productCache' = CachePut(productCache, Task.asin, id)
             /\ productCacheFile' = <<productCache'>>
             /\ IF Truthy(id)
                THEN pc' = "create" /\ payload'.product_id = id
                ELSE pc' # "create"]_vars

\* The API uploader is about to create a goal with the id of the first
\* result of a lookup in which no result has the queried identifier.
C32_Witness ==
    /\ driver = "api"
    /\ ReturnedFromLookup
    /\ response.edges = <<Node("W")>>
    /\ Task.asin # "W"
    /\ payload.product_id = RemoteProductId("W")
    /\ productCacheFile = <<productCache>>
    /\ productCache[Task.asin] = RemoteProductId("W")

\* The row a run of the row-indexed uploader is to start at: the row given on
\* the command line when it is not 0, else the row after the stored one when
\* progress is stored and the operator accepts the prompt, else row 0.
ExpectedStart(a) ==
    IF a.startRow # 0 THEN a.startRow
    ELSE IF progressFile # <<>> /\ a.answer = "y"
    THEN progressFile[1].lastRowIndex + 1
    ELSE 0

\* C33: in the row-indexed uploader a run whose operator accepts the resume
\* prompt over stored progress starts at row lastRowIndex + 1; a run given a
\* non-zero start row starts at that row whatever is stored and whatever the
\* operator would answer; and no run attempts a row below its start row.
C33_ResumeStartRow ==
    [][driver = "api" =>
          /\ runs' # runs =>
                \E a \in ArgChoices :
                    /\ args' = [a EXCEPT !.startRow = ExpectedStart(a)]
                    /\ i' = ExpectedStart(a)
          /\ \A k \in 1..Len(trace') : trace'[k].task >= args'.startRow]_vars

\* A second run of the API uploader, resumed after row 1 on the operator's
\* yes, has attempted row 2 first.
C33_Witness ==
    /\ driver = "api"
    /\ runs = 2
    /\ args.answer = "y"
    /\ args.limit = 0
    /\ args.startRow = 2
    /\ Len(trace) > 0
    /\ trace[1].task = 2

\* C34: within a run the in-memory cache only grows: a mapping that is in the
\* cache is neither removed nor changed by a later resolve, so that every
\* resolve of the identifier returns the same id.
C34_CacheImmutableInRun ==
    [][runs' = runs =>
          \A a \in DOMAIN productCache :
              a \in DOMAIN productCache' /\ productCache'[a] = productCache[a]]_vars

\* C35: the completed list of the persisted ledger never holds an identifier
\* twice, after any sequence of success and error recordings on a ledger
\* without duplicates.
C35_CompletedNoDuplicates ==
    progressFile # <<>> =>
        LET completed == progressFile[1].completed IN
        \A k, m \in 1..Len(completed) : k # m => completed[k] # completed[m]

\* A success was recorded for an identifier that the completed list held
\* already, and again after an error for it.
C35_Witness ==
    /\ progressFile # <<>>
    /\ \E k, l, m \in 1..Len(trace) :
           /\ k < l /\ l < m
           /\ trace[k] = Event("save", trace[k].task, 0, "success")
           /\ trace[l] = Event("save", trace[k].task, 0, "error")
           /\ trace[m] = Event("save", trace[k].task, 0, "success")
           /\ ArrayIncludes(progressFile[1].completed, asins[trace[k].task + 1])

\* The completed list of the keyed drivers' ledger file
CompletedList ==
    IF progressFile # <<>> /\ Parseable THEN progressFile[1].completed ELSE <<>>

\* C36: an identifier enters the completed list of the ledger only in the
\* step in which the create call for that identifier returns a success
\* response: never after a skip, a failed lookup or a failed create call.
C36_SuccessOnlyAfterCreate ==
    [][(driver \in KeyedDrivers /\ CompletedList' # CompletedList)
          => /\ pc = "create"
             /\ Ok(response')
             /\ CompletedList' = Append(CompletedList, Task.asin)
             /\ trace[Len(trace)] = Event("create", TaskIndex, 0, Task.asin)
             /\ trace'[Len(trace) + 1] = Event("createResponse", TaskIndex, 200, "")]_vars

\* A run of the simplified uploader in which one task was skipped, the create
\* call of another failed and that of a third succeeded: only the third is
\* completed.
C36_Witness ==
    /\ driver = "simplified"
    /\ skippedCount = 1
    /\ errorCount = 1
    /\ successCount = 1
    /\ Len(CompletedList) = 1
    /\ \E k \in 1..Len(trace) :
           /\ trace[k] = Event("createResponse", trace[k].task, 200, "")
           /\ CompletedList[1] = AsinOf(trace[k])

\* C37: in an uploader without the first-result fallback every product id
\* used in a create call is that of a remote product with the identifier of
\* the task, also when the cache file was filled by the API uploader before.
C37_StrictIdBelongsToTask ==
    (driver \in KeyedDrivers /\ pc = "create")
        => payload.product_id \in {Node(Task.asin).productId,
                                   Variant(Task.asin).productId}

\* C38: with two uploader processes at work on one cache file, a mapping that
\* is in the file stays in the file: no write of either process drops an
\* identifier that the other has persisted.
C38_NoLostMapping ==
    [][productCacheFile # <<>> =>
          /\ productCacheFile' # <<>>
          /\ DOMAIN productCacheFile[1] \subseteq DOMAIN productCacheFile'[1]]_vars

\* The run is in Processing.
Processing == pc \in {"loop", "lookup", "create", "sleep"}

\* A step of a run in Processing: a step of the driver itself or the return
\* of the remote call it waits for.
RunStep == NextTask \/ LookupResponse \/ CreateResponse \/ SleepDone

\* The steps the loop body has left at a position of main()
PcRank ==
    CASE pc = "loop" -> 3 [] pc = "lookup" -> 2 [] pc = "create" -> 1
      [] OTHER -> 0

\* A measure of the work a run has left: the tasks from the loop index to the
\* end index, then the steps left in the loop body.
Rank ==
    IF ~Processing THEN 0
    ELSE IF i >= endIndex THEN 1
    ELSE (endIndex - i) * 4 + PcRank + 1

\* C39: if every remote call returns and every file operation succeeds, a
\* run terminates, halted or with its tasks drained: a run in Processing can
\* always take a step, every step of a run lowers a measure that is never
\* negative, and a run that is over is halted or has its tasks drained.  The
\* loop index is changed only by the return to the loop head, which advances
\* it by one, so that each task is attempted at most once and the driver
\* never returns to an earlier task.
C39_RunTerminates ==
    /\ [](Processing => ENABLED RunStep)
    /\ [](Rank >= 0)
    /\ []((pc = "done" /\ runs > 0 /\ ~args.dryRun) => (halted \/ i >= endIndex))
    /\ [][(Processing /\ runs' = runs) => Rank' < Rank]_vars
    /\ [][(runs' = runs /\ i' # i) => (pc' = "loop" /\ i' = i + 1)]_vars

\* A run has ended with its three tasks drained: one created, one failed,
\* one skipped.
C39_Witness ==
    /\ pc = "done"
    /\ ~halted
    /\ i = endIndex
    /\ endIndex = 3
    /\ successCount = 1
    /\ errorCount = 1
    /\ skippedCount = 1

====
